---- MODULE Spec2Model ----
(***************************************************************************)
(* Model of context_chat_backend/vectordb/qdrant.py: the VectorDB adapter  *)
(* (one collection per user on a Qdrant service) together with the part of *)
(* the service the adapter talks to: the list of collections, and the hits *)
(* a search returns.                                                       *)
(*                                                                         *)
(* Every method of the class is an operator with the method's name that    *)
(* maps (adapter fields, service state, arguments) to the outcome          *)
(* [exc, collections, calls, ret]: the exception raised, the service's     *)
(* collections afterwards, the service calls issued in order, and the      *)
(* value returned.  The actions apply the operators to the state.          *)
(***************************************************************************)
EXTENDS Integers, Sequences, FiniteSets, TLC

VARIABLES
    client,         \* self.client: None, or the QdrantClient of __init__
    embedding,      \* self.embedding: None, or the instance's embedding function
    collections,    \* the service: its collections, in the order it lists them
    pre,            \* the collections the service held when the adapter was built
    called,         \* user ids for which a schema-ensuring operation was called
    creates,        \* per collection name: create_collection calls issued so far
    filters,        \* argument of get_metadata_filter
    metadata_key,   \* argument of get_objects_from_metadata
    values,         \* argument of get_objects_from_metadata
    search_result,  \* the hits the service returns to client.search
    last,           \* the last operation (or step): what it issued and returned
    proc            \* per caller: where it stands inside an operation in flight

vars == <<client, embedding, collections, pre, called, creates, filters,
          metadata_key, values, search_result, last, proc>>

service == <<collections, creates>>
inputs == <<filters, metadata_key, values, search_result>>

----------------------------------------------------------------------------
(* Bounds and value sets *)

MaxFilters == 2     \* longest list of filter entries
MaxValues == 2      \* longest list of requested values
MaxHits == 2        \* longest list of hits a search returns

None == "None"
QdrantClientObj == "QdrantClient"
Users == {"alice", "bob"}
EmbeddingFns == {"E1", "E2"}
MetaKeys == {"source", "title"}
MetaValues == {"a", "b"}
HitIds == {1, 2}
Callers == {"c1", "c2"}

SeqsUpTo(S, n) == UNION {[1..k -> S] : k \in 0..n}

----------------------------------------------------------------------------
(* Python helpers *)

\* x in list
PyIn(x, list) == \E i \in DOMAIN list : list[i] = x

\* a or b, on values that are None or an object (objects are truthy)
PyOr(a, b) == IF a # None THEN a ELSE b

\* dict.get(key): None when the key is absent
DictGet(d, key) == IF key \in DOMAIN d THEN d[key] ELSE None

\* d[key] = value
DictPut(d, key, value) ==
    [x \in (DOMAIN d) \cup {key} |-> IF x = key THEN value ELSE d[x]]

EmptyDict == <<>>

NoExc == "none"
ClientNotInitialised == "DbException: Error: Qdrant client not initialised"
MetadataFilterError == "DbException: Error: Qdrant metadata filter error"
KeyError == "KeyError"
IndexError == "IndexError"
AlreadyExists == "UnexpectedResponse: collection already exists"

----------------------------------------------------------------------------
(* Collection naming (vectordb/__init__.py) *)

get_collection_name(user_id) == <<"Vector_user", user_id>>

get_user_id_from_collection(collection_name) == collection_name[2]

CollectionNameSet == {get_collection_name(u) : u \in Users}

----------------------------------------------------------------------------
(* The service *)

VectorSize == 768
SearchLimit == 100

class_schema_properties ==
    <<"text", "type", "title", "source", "start_index", "modified", "provider">>

\* the collection that the create_collection call of setup_schema describes
NewCollection(collection_name) ==
    [name |-> collection_name, size |-> VectorSize, distance |-> "Cosine",
     payload_schema |-> class_schema_properties]

\* [c.name for c in client.get_collections().collections]
CollectionNames(colls) == [i \in DOMAIN colls |-> colls[i].name]

\* client.create_collection: the service keeps names unique and refuses a
\* name it already holds
create_collection(colls, collection_name) ==
    IF PyIn(collection_name, CollectionNames(colls))
    THEN [exc |-> AlreadyExists, collections |-> colls]
    ELSE [exc |-> NoExc,
          collections |-> Append(colls, NewCollection(collection_name))]

\* client.search: at most `limit` of the hits the service has to offer
search(hits, limit) ==
    IF Len(hits) <= limit THEN hits ELSE SubSeq(hits, 1, limit)

\* the service calls, as issued
GetCollectionsCall == [call |-> "get_collections"]

CreateCollectionCall(colls, collection_name) ==
    [call |-> "create_collection", collection_name |-> collection_name,
     present |-> PyIn(collection_name, CollectionNames(colls)),
     size |-> VectorSize, distance |-> "Cosine"]

SearchCall(colls, collection_name, query_filter) ==
    [call |-> "search", collection_name |-> collection_name,
     present |-> PyIn(collection_name, CollectionNames(colls)),
     query_vector |-> None, query_filter |-> query_filter,
     limit |-> SearchLimit]

----------------------------------------------------------------------------
(* VectorDB.get_users *)

\* mutant: the listing loses its first collection
get_users_skips_first(cl, colls) ==
    IF cl = None
    THEN [exc |-> ClientNotInitialised, collections |-> colls,
          calls |-> <<>>, ret |-> <<>>]
    ELSE [exc |-> NoExc, collections |-> colls,
          calls |-> <<GetCollectionsCall>>,
          ret |-> [i \in 1..(Len(colls) - 1) |->
                      get_user_id_from_collection(colls[i + 1].name)]]

get_users(cl, colls) ==
    IF cl = None
    THEN [exc |-> ClientNotInitialised, collections |-> colls,
          calls |-> <<>>, ret |-> <<>>]
    ELSE [exc |-> NoExc, collections |-> colls,
          calls |-> <<GetCollectionsCall>>,
          ret |-> [i \in DOMAIN colls |->
                      get_user_id_from_collection(colls[i].name)]]

----------------------------------------------------------------------------
(* VectorDB.setup_schema *)

\* mutant: no test for the name, the collection is always created
setup_schema_no_check(cl, colls, user_id) ==
    IF cl = None
    THEN [exc |-> ClientNotInitialised, collections |-> colls, calls |-> <<>>]
    ELSE LET collection_name == get_collection_name(user_id)
             made == create_collection(colls, collection_name)
         IN  [exc |-> made.exc, collections |-> made.collections,
              calls |-> <<CreateCollectionCall(colls, collection_name)>>]

\* mutant: no guard on the client
setup_schema_no_guard(cl, colls, user_id) ==
    LET collection_name == get_collection_name(user_id)
    IN  IF PyIn(collection_name, CollectionNames(colls))
        THEN [exc |-> NoExc, collections |-> colls,
              calls |-> <<GetCollectionsCall>>]
        ELSE LET made == create_collection(colls, collection_name)
             IN  [exc |-> made.exc, collections |-> made.collections,
                  calls |-> <<GetCollectionsCall,
                              CreateCollectionCall(colls, collection_name)>>]

setup_schema(cl, colls, user_id) ==
    IF cl = None
    THEN [exc |-> ClientNotInitialised, collections |-> colls, calls |-> <<>>]
    ELSE LET collection_name == get_collection_name(user_id)
         IN  IF PyIn(collection_name, CollectionNames(colls))
             THEN [exc |-> NoExc, collections |-> colls,
                   calls |-> <<GetCollectionsCall>>]
             ELSE LET made == create_collection(colls, collection_name)
                  IN  [exc |-> made.exc, collections |-> made.collections,
                       calls |-> <<GetCollectionsCall,
                                   CreateCollectionCall(colls, collection_name)>>]

----------------------------------------------------------------------------
(* VectorDB.get_user_client *)

NoHandle == [none |-> TRUE]

\* lines 73-79: the VectorStore handle
UserClientHandle(cl, emb, user_id, embedding_arg) ==
    [client |-> cl, collection_name |-> get_collection_name(user_id),
     text_key |-> "text", embedding |-> PyOr(emb, embedding_arg)]

get_user_client(cl, emb, colls, user_id, embedding_arg) ==
    LET s == setup_schema(cl, colls, user_id)
    IN  IF s.exc # NoExc
        THEN [exc |-> s.exc, collections |-> s.collections,
              calls |-> s.calls, ret |-> NoHandle]
        ELSE [exc |-> NoExc, collections |-> s.collections,
              calls |-> s.calls,
              ret |-> UserClientHandle(cl, emb, user_id, embedding_arg)]

----------------------------------------------------------------------------
(* VectorDB.get_metadata_filter *)

NoneFilter == [none |-> TRUE]

\* f[key] raises KeyError when the entry has no such key
HasKeys(f) == "metadata_key" \in DOMAIN f /\ "values" \in DOMAIN f

\* {'key': f['metadata_key'], 'match': {'value': f['values']}}
MatchFilter(f) == [key |-> f["metadata_key"], match |-> [value |-> f["values"]]]

\* lines 86-94, the body of the try: the value returned or the exception raised
FilterTryBody(fs) ==
    IF Len(fs) = 1
    THEN IF HasKeys(fs[1])
         THEN [exc |-> NoExc, ret |-> MatchFilter(fs[1])]
         ELSE [exc |-> KeyError, ret |-> NoneFilter]
    ELSE IF \A i \in DOMAIN fs : HasKeys(fs[i])
         THEN [exc |-> NoExc,
               ret |-> [should |-> [i \in DOMAIN fs |-> MatchFilter(fs[i])]]]
         ELSE [exc |-> KeyError, ret |-> NoneFilter]

\* mutant: only IndexError is caught
get_metadata_filter_keyerror_escapes(fs) ==
    IF Len(fs) = 0
    THEN [exc |-> NoExc, ret |-> NoneFilter]
    ELSE LET r == FilterTryBody(fs)
         IN  IF r.exc \in {IndexError}
             THEN [exc |-> NoExc, ret |-> NoneFilter]
             ELSE r

\* mutant: a single entry is wrapped in a 'should' list like any other
get_metadata_filter_always_should(fs) ==
    IF Len(fs) = 0
    THEN [exc |-> NoExc, ret |-> NoneFilter]
    ELSE IF \A i \in DOMAIN fs : HasKeys(fs[i])
         THEN [exc |-> NoExc,
               ret |-> [should |-> [i \in DOMAIN fs |-> MatchFilter(fs[i])]]]
         ELSE [exc |-> NoExc, ret |-> NoneFilter]

\* mutant: an entry with no values makes no filter
get_metadata_filter_empty_values(fs) ==
    IF Len(fs) = 0 \/ \E i \in DOMAIN fs : DictGet(fs[i], "values") = <<>>
    THEN [exc |-> NoExc, ret |-> NoneFilter]
    ELSE LET r == FilterTryBody(fs)
         IN  IF r.exc \in {KeyError, IndexError}
             THEN [exc |-> NoExc, ret |-> NoneFilter]
             ELSE r

get_metadata_filter(fs) ==
    IF Len(fs) = 0
    THEN [exc |-> NoExc, ret |-> NoneFilter]
    ELSE LET r == FilterTryBody(fs)
         IN  IF r.exc \in {KeyError, IndexError}
             THEN [exc |-> NoExc, ret |-> NoneFilter]
             ELSE r

----------------------------------------------------------------------------
(* VectorDB.get_objects_from_metadata *)

\* mutant: no test of membership in the requested values
RECURSIVE CollectObjects_no_membership(_, _, _)
CollectObjects_no_membership(key, vals, hits) ==
    IF hits = <<>>
    THEN EmptyDict
    ELSE LET output == CollectObjects_no_membership(key, vals,
                                                    SubSeq(hits, 1, Len(hits) - 1))
             hit == hits[Len(hits)]
             key_value == DictGet(hit.payload, key)
         IN  DictPut(output, key_value,
                     [id |-> hit.id,
                      modified |-> DictGet(hit.payload, "modified")])

\* lines 120-128: the loop over the hits, the last hit of a value winning
RECURSIVE CollectObjects(_, _, _)
CollectObjects(key, vals, hits) ==
    IF hits = <<>>
    THEN EmptyDict
    ELSE LET output == CollectObjects(key, vals, SubSeq(hits, 1, Len(hits) - 1))
             hit == hits[Len(hits)]
             key_value == DictGet(hit.payload, key)
         IN  IF PyIn(key_value, vals)
             THEN DictPut(output, key_value,
                          [id |-> hit.id,
                           modified |-> DictGet(hit.payload, "modified")])
             ELSE output

\* lines 109-130: what follows setup_schema
QueryObjects(colls, user_id, key, vals, hits) ==
    LET made == get_metadata_filter(<<[metadata_key |-> key, values |-> vals]>>)
    IN  IF made.exc # NoExc
        THEN [exc |-> made.exc, calls |-> <<>>, ret |-> EmptyDict]
        ELSE IF made.ret = NoneFilter
        THEN [exc |-> MetadataFilterError, calls |-> <<>>, ret |-> EmptyDict]
        ELSE [exc |-> NoExc,
              calls |-> <<SearchCall(colls, get_collection_name(user_id), made.ret)>>,
              ret |-> CollectObjects(key, vals, search(hits, SearchLimit))]

\* mutant: the query is issued without setup_schema
get_objects_from_metadata_no_schema(cl, colls, user_id, key, vals, hits) ==
    IF cl = None
    THEN [exc |-> ClientNotInitialised, collections |-> colls,
          calls |-> <<>>, ret |-> EmptyDict]
    ELSE LET q == QueryObjects(colls, user_id, key, vals, hits)
         IN  [exc |-> q.exc, collections |-> colls, calls |-> q.calls,
              ret |-> q.ret]

get_objects_from_metadata(cl, colls, user_id, key, vals, hits) ==
    IF cl = None
    THEN [exc |-> ClientNotInitialised, collections |-> colls,
          calls |-> <<>>, ret |-> EmptyDict]
    ELSE LET s == setup_schema(cl, colls, user_id)
         IN  IF s.exc # NoExc
             THEN [exc |-> s.exc, collections |-> s.collections,
                   calls |-> s.calls, ret |-> EmptyDict]
             ELSE LET q == QueryObjects(s.collections, user_id, key, vals, hits)
                  IN  [exc |-> q.exc, collections |-> s.collections,
                       calls |-> s.calls \o q.calls, ret |-> q.ret]

----------------------------------------------------------------------------
(* Initial states *)

\* a collection found on the service at start: of this schema, or made by
\* another tool with another distance metric
PreCollection(u, d) ==
    [NewCollection(get_collection_name(u)) EXCEPT !.distance = d]

PreCollections == {PreCollection(u, d) : u \in Users, d \in {"Cosine", "Dot"}}

\* the service lists no name twice
PreStates ==
    {s \in SeqsUpTo(PreCollections, Cardinality(Users)) :
        \A i, j \in DOMAIN s : s[i].name = s[j].name => i = j}

ValueLists == SeqsUpTo(MetaValues, MaxValues)

FilterValueLists == {<<>>, <<"a">>, <<"a", "b">>}

\* MetadataFilter dicts, well formed or lacking one key or both
FilterEntries ==
    [metadata_key : MetaKeys, values : FilterValueLists]
        \cup [metadata_key : MetaKeys]
        \cup [values : FilterValueLists]
        \cup {EmptyDict}

FilterLists == SeqsUpTo(FilterEntries, MaxFilters)

\* payloads of stored points: with or without the key asked for, with or
\* without 'modified'
Payloads ==
    { [source |-> "a", modified |-> "t1"],
      [source |-> "a", modified |-> "t2"],
      [source |-> "b", title |-> "a", modified |-> "t1"],
      [title |-> "b"] }

Hits == [id : HitIds, payload : Payloads]

HitLists == SeqsUpTo(Hits, MaxHits)

Idle == [pc |-> "idle", op |-> None, user |-> None, embedding |-> None]

NoOperation ==
    [op |-> "init", user |-> None, embedding |-> None, exc |-> NoExc,
     calls |-> <<>>, ret |-> None]

\* __init__: the client and the embedding are stored; the service holds
\* whatever it held.  client = None is the state the guards of lines 43, 50
\* and 104 test for: __init__ itself always stores a client, the attribute is
\* public
InitAdapter ==
    /\ client \in {None, QdrantClientObj}
    /\ embedding \in {None} \cup EmbeddingFns
    /\ pre \in PreStates
    /\ collections = pre
    /\ called = {}
    /\ creates = [n \in CollectionNameSet |-> 0]
    /\ last = NoOperation
    /\ proc = [c \in Callers |-> Idle]

SampleInputs ==
    /\ filters = <<[metadata_key |-> "source", values |-> <<"a">>]>>
    /\ metadata_key = "source"
    /\ values = <<"a">>
    /\ search_result = <<[id |-> 1, payload |-> [source |-> "a", modified |-> "t1"]]>>

Init == InitAdapter /\ SampleInputs

----------------------------------------------------------------------------
(* Operations, each a whole call *)

CountCreates(calls, n) ==
    Cardinality({i \in DOMAIN calls :
                    /\ calls[i].call = "create_collection"
                    /\ calls[i].collection_name = n})

Issued(calls) == [n \in CollectionNameSet |-> creates[n] + CountCreates(calls, n)]

Outcome(op, user_id, embedding_arg, r) ==
    [op |-> op, user |-> user_id, embedding |-> embedding_arg, exc |-> r.exc,
     calls |-> r.calls, ret |-> r.ret]

GetUsers ==
    LET r == get_users(client, collections)
    IN  /\ collections' = r.collections
        /\ creates' = Issued(r.calls)
        /\ last' = Outcome("get_users", None, None, r)
        /\ UNCHANGED <<client, embedding, pre, called, inputs, proc>>

SetupSchema(u) ==
    LET r == setup_schema(client, collections, u)
    IN  /\ collections' = r.collections
        /\ creates' = Issued(r.calls)
        /\ called' = called \cup {u}
        /\ last' = Outcome("setup_schema", u, None,
                           [exc |-> r.exc, calls |-> r.calls, ret |-> None])
        /\ UNCHANGED <<client, embedding, pre, inputs, proc>>

GetUserClient(u, e) ==
    LET r == get_user_client(client, embedding, collections, u, e)
    IN  /\ collections' = r.collections
        /\ creates' = Issued(r.calls)
        /\ called' = called \cup {u}
        /\ last' = Outcome("get_user_client", u, e, r)
        /\ UNCHANGED <<client, embedding, pre, inputs, proc>>

GetMetadataFilter ==
    LET r == get_metadata_filter(filters)
    IN  /\ last' = Outcome("get_metadata_filter", None, None,
                           [exc |-> r.exc, calls |-> <<>>, ret |-> r.ret])
        /\ UNCHANGED <<client, embedding, pre, called, service, inputs, proc>>

GetObjectsFromMetadata(u) ==
    LET r == get_objects_from_metadata(client, collections, u, metadata_key,
                                       values, search_result)
    IN  /\ collections' = r.collections
        /\ creates' = Issued(r.calls)
        /\ called' = called \cup {u}
        /\ last' = Outcome("get_objects_from_metadata", u, None, r)
        /\ UNCHANGED <<client, embedding, pre, inputs, proc>>

Next ==
    \/ GetUsers
    \/ \E u \in Users : SetupSchema(u)
    \/ \E u \in Users, e \in {None} \cup EmbeddingFns : GetUserClient(u, e)
    \/ GetMetadataFilter
    \/ \E u \in Users : GetObjectsFromMetadata(u)

Spec == Init /\ [][Next]_vars

----------------------------------------------------------------------------
(* get_metadata_filter over every list of entries *)

FilterInit ==
    /\ InitAdapter
    /\ client = QdrantClientObj /\ embedding = None /\ pre = <<>>
    /\ filters \in FilterLists
    /\ metadata_key = "source"
    /\ values = <<"a">>
    /\ search_result = <<>>

FilterNext == GetMetadataFilter

FilterSpec == FilterInit /\ [][FilterNext]_vars

----------------------------------------------------------------------------
(* get_objects_from_metadata over every key, value list and list of hits *)

SearchInit ==
    /\ InitAdapter
    /\ client = QdrantClientObj /\ embedding = None /\ pre = <<>>
    /\ filters = <<>>
    /\ metadata_key \in MetaKeys
    /\ values \in ValueLists
    /\ search_result \in HitLists

SearchNext == \E u \in Users : GetObjectsFromMetadata(u)

SearchSpec == SearchInit /\ [][SearchNext]_vars

----------------------------------------------------------------------------
(* Two callers, no lock: an operation is a run of service calls, and the    *)
(* other caller's calls may fall between any two of them                    *)

SchemaOps == {"setup_schema", "get_user_client", "get_objects_from_metadata"}

AfterSchema(c, op, u, e) ==
    IF op = "setup_schema"
    THEN [proc EXCEPT ![c] = Idle]
    ELSE [proc EXCEPT ![c] = [pc |-> "rest", op |-> op, user |-> u, embedding |-> e]]

\* the call is made; lines 50-55 (and 104-105): the guard, then the listing
\* of the collections and the test for the name
CBegin(c, op, u, e) ==
    /\ proc[c].pc = "idle"
    /\ e # None => op = "get_user_client"
    /\ called' = called \cup {u}
    /\ IF client = None
       THEN /\ last' = Outcome(op, u, e, [exc |-> ClientNotInitialised,
                                          calls |-> <<>>, ret |-> None])
            /\ proc' = proc
       ELSE /\ last' = Outcome(op, u, e, [exc |-> NoExc,
                                          calls |-> <<GetCollectionsCall>>,
                                          ret |-> None])
            /\ proc' = IF PyIn(get_collection_name(u), CollectionNames(collections))
                       THEN AfterSchema(c, op, u, e)
                       ELSE [proc EXCEPT ![c] = [pc |-> "create", op |-> op,
                                                 user |-> u, embedding |-> e]]
    /\ UNCHANGED <<client, embedding, pre, service, inputs>>

\* lines 57-64: the name was not listed, the collection is created
CCreate(c) ==
    /\ proc[c].pc = "create"
    /\ LET p == proc[c]
           collection_name == get_collection_name(p.user)
           call == CreateCollectionCall(collections, collection_name)
           made == create_collection(collections, collection_name)
       IN  /\ collections' = made.collections
           /\ creates' = Issued(<<call>>)
           /\ last' = Outcome(p.op, p.user, p.embedding,
                              [exc |-> made.exc, calls |-> <<call>>, ret |-> None])
           /\ proc' = IF made.exc # NoExc
                      THEN [proc EXCEPT ![c] = Idle]
                      ELSE AfterSchema(c, p.op, p.user, p.embedding)
    /\ UNCHANGED <<client, embedding, pre, called, inputs>>

\* what follows setup_schema: lines 73-79, or lines 109-130
CFinish(c) ==
    /\ proc[c].pc = "rest"
    /\ LET p == proc[c]
       IN  IF p.op = "get_user_client"
           THEN last' = Outcome(p.op, p.user, p.embedding,
                                [exc |-> NoExc, calls |-> <<>>,
                                 ret |-> UserClientHandle(client, embedding,
                                                          p.user, p.embedding)])
           ELSE last' = Outcome(p.op, p.user, p.embedding,
                                QueryObjects(collections, p.user, metadata_key,
                                             values, search_result))
    /\ proc' = [proc EXCEPT ![c] = Idle]
    /\ UNCHANGED <<client, embedding, pre, called, service, inputs>>

ConcNext ==
    \/ \E c \in Callers, op \in SchemaOps, u \in Users,
          e \in {None} \cup EmbeddingFns : CBegin(c, op, u, e)
    \/ \E c \in Callers : CCreate(c)
    \/ \E c \in Callers : CFinish(c)

ConcSpec == Init /\ [][ConcNext]_vars

----------------------------------------------------------------------------
(* Claims *)

Searches(calls) == {i \in DOMAIN calls : calls[i].call = "search"}
Creations(calls) == {i \in DOMAIN calls : calls[i].call = "create_collection"}
Named(colls, n) == {i \in DOMAIN colls : colls[i].name = n}
ClientOps == {"get_users", "setup_schema", "get_user_client",
              "get_objects_from_metadata"}

\* C1: setup_schema is idempotent.  However many calls were made in sequence
\* (directly or through the operations that call it), create_collection was
\* issued at most once per name and never for a name the service already
\* held; after a call the service holds exactly one collection of the user's
\* name; every collection held at the start is still there unchanged, and
\* every other one is as it was created.
C1_SetupSchemaIdempotent ==
    /\ \A n \in CollectionNameSet :
          /\ creates[n] <= 1
          /\ PyIn(n, CollectionNames(pre)) => creates[n] = 0
    /\ \A i \in DOMAIN pre : i \in DOMAIN collections /\ collections[i] = pre[i]
    /\ \A i \in DOMAIN collections :
          i > Len(pre) => collections[i] = NewCollection(collections[i].name)
    /\ (last.op = "setup_schema" /\ last.exc = NoExc) =>
          /\ Cardinality(Named(collections, get_collection_name(last.user))) = 1
          /\ Cardinality(Creations(last.calls)) <= 1
          /\ \A i \in Creations(last.calls) :
                /\ last.calls[i].collection_name = get_collection_name(last.user)
                /\ ~last.calls[i].present

\* a repeated setup_schema on a collection an earlier call created, beside a
\* collection the service held from the start
C1_Witness ==
    /\ last.op = "setup_schema" /\ last.exc = NoExc
    /\ creates[get_collection_name(last.user)] = 1
    /\ Creations(last.calls) = {}
    /\ Len(pre) = 1 /\ pre[1].distance = "Dot"

\* C2: the handle of get_user_client uses the embedding argument whenever it
\* is not None, and the instance's embedding only when the argument is None.
C2_ArgumentOverridesInstance ==
    (last.op = "get_user_client" /\ last.exc = NoExc) =>
        last.ret.embedding =
            (IF last.embedding # None THEN last.embedding ELSE embedding)

\* C3: get_metadata_filter never raises; it returns a filter or null, and null
\* whenever the list is empty or an entry lacks 'metadata_key' or 'values';
\* it issues no service call and changes nothing.
C3_FilterNeverRaises ==
    last.op = "get_metadata_filter" =>
        /\ last.exc = NoExc
        /\ \/ last.ret = NoneFilter
           \/ DOMAIN last.ret = {"key", "match"}
           \/ DOMAIN last.ret = {"should"}
        /\ (\/ Len(filters) = 0
            \/ \E i \in DOMAIN filters :
                  ~({"metadata_key", "values"} \subseteq DOMAIN filters[i]))
              => last.ret = NoneFilter
        /\ last.calls = <<>>
        /\ collections = pre
        /\ \A n \in CollectionNameSet : creates[n] = 0

\* two entries, the second lacking 'values': null, no exception
C3_Witness ==
    /\ last.op = "get_metadata_filter"
    /\ Len(filters) = 2
    /\ DOMAIN filters[1] = {"metadata_key", "values"}
    /\ DOMAIN filters[2] = {"metadata_key"}
    /\ last.ret = NoneFilter

AllWellFormed ==
    \A i \in DOMAIN filters : DOMAIN filters[i] = {"metadata_key", "values"}

ExactMatch(f) == [key |-> f.metadata_key, match |-> [value |-> f.values]]

\* C4: on a well-formed list, one entry gives the exact-match filter of that
\* entry; two or more give {'should': [...]}, as long as the list, in its
\* order, the i-th element the exact-match filter of the i-th entry.
C4_FilterTranslation ==
    (last.op = "get_metadata_filter" /\ AllWellFormed) =>
        /\ Len(filters) = 1 => last.ret = ExactMatch(filters[1])
        /\ Len(filters) >= 2 =>
              /\ DOMAIN last.ret = {"should"}
              /\ Len(last.ret.should) = Len(filters)
              /\ \A i \in DOMAIN filters :
                    last.ret.should[i] = ExactMatch(filters[i])

\* two well-formed entries that differ
C4_Witness ==
    /\ last.op = "get_metadata_filter" /\ AllWellFormed
    /\ Len(filters) = 2
    /\ filters[1].metadata_key # filters[2].metadata_key
    /\ filters[1].values # filters[2].values
    /\ DOMAIN last.ret = {"should"}

HitValue(hit) == IF metadata_key \in DOMAIN hit.payload
                 THEN hit.payload[metadata_key] ELSE None
HitModified(hit) == IF "modified" \in DOMAIN hit.payload
                    THEN hit.payload["modified"] ELSE None
Requested == {values[j] : j \in DOMAIN values}

\* C5: the mapping get_objects_from_metadata returns has as keys exactly the
\* payload[metadata_key] values of the returned hits that are among the
\* requested values, and each entry holds the id and 'modified' of one
\* returned hit of that value.
C5_ObjectsByRequestedValue ==
    (last.op = "get_objects_from_metadata" /\ last.exc = NoExc) =>
        /\ DOMAIN last.ret =
              {HitValue(search_result[i]) : i \in DOMAIN search_result}
                  \cap Requested
        /\ \A k \in DOMAIN last.ret :
              \E i \in DOMAIN search_result :
                  /\ HitValue(search_result[i]) = k
                  /\ last.ret[k] = [id |-> search_result[i].id,
                                    modified |-> HitModified(search_result[i])]

\* two hits of one requested value with different ids, one entry
C5_Witness ==
    /\ last.op = "get_objects_from_metadata" /\ last.exc = NoExc
    /\ Len(search_result) = 2
    /\ HitValue(search_result[1]) = HitValue(search_result[2])
    /\ search_result[1].id # search_result[2].id
    /\ HitValue(search_result[1]) \in Requested
    /\ Cardinality(DOMAIN last.ret) = 1

\* C6: with no client, every operation that uses it raises the DbException
\* of the guard and issues no service call; the service is as it was.
C6_NoClientNoCall ==
    client = None =>
        /\ last.op \in ClientOps =>
              last.exc = ClientNotInitialised /\ last.calls = <<>>
        /\ collections = pre
        /\ \A n \in CollectionNameSet : creates[n] = 0

C6_Witness ==
    /\ client = None
    /\ last.op = "get_user_client"
    /\ last.exc = ClientNotInitialised
    /\ pre # <<>>

\* C7: on a service that started empty, get_users returns one user id per
\* collection, no id twice, and the ids are those of the users for which
\* setup_schema, get_user_client or get_objects_from_metadata was called;
\* get_users creates and removes nothing.
C7_UsersAreThoseProvisioned ==
    (pre = <<>> /\ client # None) =>
        LET r == get_users(client, collections)
        IN  /\ r.exc = NoExc
            /\ Len(r.ret) = Len(collections)
            /\ \A i, j \in DOMAIN r.ret : r.ret[i] = r.ret[j] => i = j
            /\ {r.ret[i] : i \in DOMAIN r.ret} = called
            /\ r.collections = collections
            /\ Creations(r.calls) = {}
            /\ last.op = "get_users" => last.exc = NoExc /\ last.ret = r.ret

C7_Witness ==
    /\ pre = <<>> /\ client # None
    /\ last.op = "get_users"
    /\ Len(last.ret) = 2
    /\ called = Users

\* C8: the schema is ensured before use.  The handle of get_user_client names
\* the user's collection, which the service holds; get_objects_from_metadata
\* issues one query, after its other calls, to the user's collection, which
\* the service holds by then, with no vector and the limit 100, and returns
\* no more entries than the limit.
C8_SchemaBeforeUse ==
    /\ (last.op = "get_user_client" /\ last.exc = NoExc) =>
          /\ last.ret.collection_name = get_collection_name(last.user)
          /\ PyIn(last.ret.collection_name, CollectionNames(collections))
    /\ (last.op = "get_objects_from_metadata" /\ client # None) =>
          /\ last.exc = NoExc
          /\ Searches(last.calls) = {Len(last.calls)}
          /\ LET q == last.calls[Len(last.calls)]
             IN  /\ q.collection_name = get_collection_name(last.user)
                 /\ q.present
                 /\ q.query_vector = None
                 /\ q.limit = SearchLimit
                 /\ Cardinality(DOMAIN last.ret) <= q.limit

\* the collection was absent: listed, created, then queried
C8_Witness ==
    /\ last.op = "get_objects_from_metadata" /\ last.exc = NoExc
    /\ Len(last.calls) = 3
    /\ last.calls[2].call = "create_collection"
    /\ last.calls[3].call = "search"

\* C9: the filter built from the one entry {metadata_key, values} is never
\* null, so get_objects_from_metadata with a client never raises the
\* metadata filter error and always reaches the query.
C9_FilterErrorUnreachable ==
    /\ get_metadata_filter(
           <<[metadata_key |-> metadata_key, values |-> values]>>).ret # NoneFilter
    /\ last.op = "get_objects_from_metadata" =>
          /\ last.exc = NoExc
          /\ Searches(last.calls) # {}

\* the empty list of values
C9_Witness ==
    /\ last.op = "get_objects_from_metadata"
    /\ values = <<>>
    /\ last.exc = NoExc
    /\ Searches(last.calls) # {}

\* C10: create_collection is never issued for a name the service holds at
\* that moment, whatever the interleaving of two callers.
C10_NoCreateOfPresentName ==
    \A i \in Creations(last.calls) : ~last.calls[i].present

====
